---- MODULE Spec2Model ----
(***************************************************************************)
(* State-machine model of the Google connector service:                    *)
(*   server/lib/auth.ts  - verifyJWT, signJWT, requireAuth                 *)
(*   server/routes.ts    - registerRoutes (OAuth start/callback, protected *)
(*                         /api routes)                                    *)
(* together with the two earlier revisions of requireAuth kept in the      *)
(* repository (unnamed/part_000, unnamed/part_001).                        *)
(*                                                                         *)
(* Strings are sequences of integer atoms.  The atom BEARER stands for the *)
(* seven characters "Bearer "; the atoms in KeyChars are ordinary          *)
(* characters.  A compact JWT "header.payload.signature" is the four-atom  *)
(* string << header, website_id, exp, signature >>, the signature being an *)
(* injective function of the signing key and the payload (HMAC).           *)
(* An absent header, undefined and "" are all the empty string (all are    *)
(* falsy in the code).  Time is counted in units of five minutes.          *)
(***************************************************************************)
EXTENDS Integers, Sequences, FiniteSets, TLC

\* ------------------------------------------------------------------ bounds
MaxTime == 1

\* --------------------------------------------------------------- constants
\* the substring "Bearer " (auth.ts:38), one atom
BEARER == 0
\* JWT header naming the algorithm HS256 (auth.ts:15, auth.ts:22)
HS256 == 9
\* JWT header naming any other algorithm
HSOTHER == 8
\* expiresIn: "5m" (auth.ts:22), in units of five minutes
ExpiresIn == 1

KeyChars == {1, 2}

\* values an environment secret can take: unset, or a key of ordinary characters
SecretVals == { <<>>, <<1>> }
WorkerVals == { <<>>, <<2>> }

\* a || b on strings: the first truthy (non-empty) operand
Or(a, b) == IF a # <<>> THEN a ELSE b

EnvRecords ==
  [ TRAFFIC_DOCTOR_API_KEY : SecretVals,
    WORKER_API_KEY         : WorkerVals,
    JWT_SHARED_SECRET      : SecretVals,
    AI_DOCTOR_BASE_URL     : BOOLEAN ]

\* the deployments the request handlers are run in: one key for everything and no
\* redirect base; separate keys for the middleware and for signing, with the redirect
\* base; nothing configured
EnvConfigs ==
  { [TRAFFIC_DOCTOR_API_KEY |-> <<1>>, WORKER_API_KEY |-> <<>>, JWT_SHARED_SECRET |-> <<>>,
     AI_DOCTOR_BASE_URL |-> FALSE],
    [TRAFFIC_DOCTOR_API_KEY |-> <<>>, WORKER_API_KEY |-> <<2>>, JWT_SHARED_SECRET |-> <<1>>,
     AI_DOCTOR_BASE_URL |-> TRUE],
    [TRAFFIC_DOCTOR_API_KEY |-> <<>>, WORKER_API_KEY |-> <<>>, JWT_SHARED_SECRET |-> <<>>,
     AI_DOCTOR_BASE_URL |-> TRUE] }

VARIABLES env, now, authReq, authRes

\* ------------------------------------------------------------ lib/auth.ts
\* const JWT_SECRET = TRAFFIC_DOCTOR_API_KEY || JWT_SHARED_SECRET || ""
JWT_SECRET(e) == Or(e.TRAFFIC_DOCTOR_API_KEY, e.JWT_SHARED_SECRET)

\* injective code of a key string
RECURSIVE KeyCode(_)
KeyCode(k) == IF k = <<>> THEN 0 ELSE 3 * KeyCode(Tail(k)) + Head(k)

\* HMAC-SHA256 of (header, payload) under key: injective in key and payload
Sig(key, wid, exp) == 1000 * (KeyCode(key) + 1) + 10 * wid + exp

\* jwt.sign(payload, key, {algorithm: "HS256", expiresIn}) issued at time t
JwtSign(key, wid, t) == << HS256, wid, t + ExpiresIn, Sig(key, wid, t + ExpiresIn) >>

\* jwt.verify(token, key, {algorithms: ["HS256"]}) at time t: does it return?
JwtVerifies(token, key, t) ==
  /\ Len(token) = 4
  /\ token[1] = HS256
  /\ token[4] = Sig(key, token[2], token[3])
  /\ t < token[3]

\* verifyJWT(token): [ok, website_id]; ok = FALSE when it throws
verifyJWT(e, token, t) ==
  IF JWT_SECRET(e) = <<>> THEN [ok |-> FALSE, website_id |-> 0]
  ELSE IF JwtVerifies(token, JWT_SECRET(e), t)
       THEN [ok |-> TRUE, website_id |-> token[2]]
       ELSE [ok |-> FALSE, website_id |-> 0]

\* signJWT(payload): [ok, token]; ok = FALSE when it throws
signJWT(e, wid, t) ==
  IF JWT_SECRET(e) = <<>> THEN [ok |-> FALSE, token |-> <<>>]
  ELSE [ok |-> TRUE, token |-> JwtSign(JWT_SECRET(e), wid, t)]

\* String.prototype.replace("Bearer ", ""): drops the FIRST occurrence, wherever it is
RECURSIVE ReplaceBearer(_)
ReplaceBearer(s) ==
  IF s = <<>> THEN <<>>
  ELSE IF Head(s) = BEARER THEN Tail(s)
  ELSE <<Head(s)>> \o ReplaceBearer(Tail(s))

\* s.startsWith("Bearer ")
StartsWithBearer(s) == s # <<>> /\ Head(s) = BEARER

\* outcome of a middleware: the response it sent (status 0: none) and whether next() ran
Reject(st, c, m) == [status |-> st, code |-> c, message |-> m, next |-> FALSE]
Accept == [status |-> 0, code |-> "", message |-> "", next |-> TRUE]

expectedKey(e) == Or(e.TRAFFIC_DOCTOR_API_KEY, e.WORKER_API_KEY)

apiKeyOf(xApiKey, authorization) == Or(xApiKey, ReplaceBearer(authorization))

\* requireAuth that also lets in a bearer token whose signature verifies
requireAuth_bearerJwt(e, xApiKey, authorization, t) ==
  IF expectedKey(e) = <<>>
    THEN Reject(500, "server_error", "API key not configured on worker")
  ELSE IF apiKeyOf(xApiKey, authorization) = <<>>
    THEN Reject(401, "unauthorized", "API key required")
  ELSE IF xApiKey = <<>> /\ StartsWithBearer(authorization)
          /\ verifyJWT(e, Tail(authorization), t).ok
    THEN Accept
  ELSE IF apiKeyOf(xApiKey, authorization) # expectedKey(e)
    THEN Reject(401, "unauthorized", "Invalid API key")
  ELSE Accept

\* requireAuth with the comparison against the configured key left out
requireAuth_anyKey(e, xApiKey, authorization, t) ==
  IF expectedKey(e) = <<>>
    THEN Reject(500, "server_error", "API key not configured on worker")
  ELSE IF apiKeyOf(xApiKey, authorization) = <<>>
    THEN Reject(401, "unauthorized", "API key required")
  ELSE Accept

\* requireAuth with the check that a key is configured left out
requireAuth_noConfigCheck(e, xApiKey, authorization, t) ==
  IF apiKeyOf(xApiKey, authorization) = <<>>
    THEN Reject(401, "unauthorized", "API key required")
  ELSE IF apiKeyOf(xApiKey, authorization) # expectedKey(e)
    THEN Reject(401, "unauthorized", "Invalid API key")
  ELSE Accept

\* requireAuth of server/lib/auth.ts, the one routes.ts imports
requireAuth(e, xApiKey, authorization, t) ==
  IF expectedKey(e) = <<>>
    THEN Reject(500, "server_error", "API key not configured on worker")
  ELSE IF apiKeyOf(xApiKey, authorization) = <<>>
    THEN Reject(401, "unauthorized", "API key required")
  ELSE IF apiKeyOf(xApiKey, authorization) # expectedKey(e)
    THEN Reject(401, "unauthorized", "Invalid API key")
  ELSE Accept

\* requireAuth of unnamed/part_000: x-api-key first, then Bearer JWT
requireAuth_part000(e, xApiKey, authorization, t) ==
  IF xApiKey # <<>>
    THEN IF xApiKey = JWT_SECRET(e) THEN Accept
         ELSE Reject(401, "unauthorized", "")
  ELSE IF ~StartsWithBearer(authorization)
    THEN Reject(401, "unauthorized", "")
  ELSE IF verifyJWT(e, Tail(authorization), t).ok THEN Accept
  ELSE Reject(401, "unauthorized", "")

\* requireAuth of unnamed/part_001: Bearer JWT only
requireAuth_part001(e, xApiKey, authorization, t) ==
  IF ~StartsWithBearer(authorization)
    THEN Reject(401, "UNAUTHORIZED", "Missing or invalid Authorization header")
  ELSE IF verifyJWT(e, Tail(authorization), t).ok THEN Accept
  ELSE Reject(401, "UNAUTHORIZED", "Invalid or expired token")

\* ------------------------------------------------- credentials a caller sends
SignKeys == { <<1>>, <<2>> }
WebsiteIds == {1, 2}

\* signed tokens a caller can hold: genuine ones, ones whose payload was edited
\* after signing (exp pushed back, website_id swapped), and ones with another header
GenuineJwts == { << HS256, w, x, Sig(k, w, x) >> : k \in SignKeys, w \in {0} \cup WebsiteIds, x \in 1..MaxTime }
TamperedJwts ==
  { << HS256, j[2], j[3] + 1, j[4] >> : j \in GenuineJwts } \cup
  { << HSOTHER, j[2], j[3], j[4] >> : j \in GenuineJwts }
Jwts == GenuineJwts \cup TamperedJwts

XApiKeyVals == { <<>>, <<1>>, <<2>>, <<1, 2>> }
AuthorizationVals ==
  { <<>>, <<1>>, <<2>>, <<BEARER>>, <<BEARER, 1>>, <<BEARER, 2>>,
    <<1, BEARER>>, <<2, BEARER>>, <<BEARER, BEARER, 1>> }
  \cup Jwts \cup { <<BEARER>> \o j : j \in Jwts }

NoAuthReq == [xApiKey |-> <<>>, authorization |-> <<>>]
NoAuthRes == [lib |-> Reject(0, "", ""), part000 |-> Reject(0, "", ""), part001 |-> Reject(0, "", "")]

\* ------------------------------------------------------- the record store
\* storage.ts and lib/google.ts are not part of the sources at hand; their
\* operations are modelled from the documented contract (a table keyed by websiteId).
Procs == {1, 2}
MaxIssued == 2

\* the null of a nullable column
Null == "<null>"
\* property identifiers a caller sends; Missing is a body without the string field
Missing == "<missing>"
Props == {"a"}
\* site lists the search-analytics provider answers with
SiteLists == { <<>>, <<"b">>, <<"b", "a">> }
Emails == {"", "e"}
REQUIRED_SCOPES == "REQUIRED_SCOPES"

NoConn ==
  [websiteId |-> 0, accessToken |-> 0, refreshToken |-> 0, expiryDate |-> 0,
   scopes |-> "", googleUserEmail |-> "", scProperty |-> Null, ga4PropertyId |-> Null]

\* storage.getConnection(websiteId): the row, or NoConn (undefined) when there is none
getConnection(conns, w) ==
  IF \E c \in conns : c.websiteId = w
    THEN CHOOSE c \in conns : c.websiteId = w
    ELSE NoConn

\* storage.upsertConnection(row): insert, or overwrite the row with the same key
upsertConnection(conns, row) ==
  { c \in conns : c.websiteId # row.websiteId } \cup { row }

\* storage.updateScProperty(websiteId, property)
updateScProperty(conns, w, property) ==
  { IF c.websiteId = w THEN [c EXCEPT !.scProperty = property] ELSE c : c \in conns }

\* storage.updateGa4Property(websiteId, propertyId)
updateGa4Property(conns, w, propertyId) ==
  { IF c.websiteId = w THEN [c EXCEPT !.ga4PropertyId = propertyId] ELSE c : c \in conns }

\* storage.updateTokens(websiteId, accessToken, expiryDate, refreshToken?)
updateTokens(conns, w, t) ==
  { IF c.websiteId = w
      THEN [c EXCEPT !.accessToken = t.access_token, !.expiryDate = t.expiry_date,
                     !.refreshToken = IF t.refresh_token # 0 THEN t.refresh_token ELSE @]
      ELSE c : c \in conns }

\* ------------------------------------------------------------ lib/google.ts
\* the five-minute buffer of getAuthenticatedClient, in units of five minutes
REFRESH_BUFFER == 1
\* attempt cap of retryWithBackoff
MAX_ATTEMPTS == 5

\* the expiry check without the five-minute buffer
IsFresh_noBuffer(c, t) == c.expiryDate > t

\* is the stored access token still usable without a refresh?
IsFresh(c, t) == c.expiryDate > t + REFRESH_BUFFER

\* the classifier that retries server errors only
Retryable_only5xx(status) == status >= 500

\* statuses retryWithBackoff tries again on
Retryable(status) == status = 429 \/ status >= 500

\* retryWithBackoff(fn): fn answers with the statuses of `script` in turn
\* (200: success); returns the final status and the attempts made
RECURSIVE retryFrom(_, _)
retryFrom(script, n) ==
  IF n > Len(script) THEN [ok |-> FALSE, status |-> 500, attempts |-> n - 1]
  ELSE IF script[n] = 200 THEN [ok |-> TRUE, status |-> 200, attempts |-> n]
  ELSE IF Retryable(script[n]) /\ n < MAX_ATTEMPTS THEN retryFrom(script, n + 1)
  ELSE [ok |-> FALSE, status |-> script[n], attempts |-> n]

retryWithBackoff(script) == retryFrom(script, 1)

\* what a provider does with a call: the statuses of its successive answers
Scripts ==
  { <<200>>, <<429, 200>>, <<429, 429, 429, 200>>, <<403>>, <<400>>,
    <<500, 500, 500, 500, 500, 500>>, <<429, 429, 429, 429, 429, 429>> }

\* handleGoogleAPIError(error): the code put in the response body
handleGoogleAPIError(kind, status) ==
  IF kind = "NOT_CONNECTED" THEN "NOT_CONNECTED"
  ELSE IF kind = "REAUTH" THEN "REAUTHORIZATION_REQUIRED"
  ELSE IF status = 429 THEN "RATE_LIMITED"
  ELSE IF status = 403 THEN "INSUFFICIENT_SCOPE"
  ELSE IF status = 400 \/ status = 404 THEN "INVALID_PROPERTY"
  ELSE "GOOGLE_API_ERROR"

\* --------------------------------------------------------- server/routes.ts
\* A handler is a sequence of awaits.  Each access to the record store is a step
\* of its own, so two requests interleave at every point where they can see each
\* other.  Calls to the identity provider and the analytics providers touch no
\* state of this service; each is taken in the same step as the store access or
\* the response that follows it, the provider's answer being chosen freely.
VARIABLES connections, proc, issued

NoTokens == [access_token |-> 0, refresh_token |-> 0, expiry_date |-> 0, scope |-> ""]
NoResp ==
  [status |-> 0, code |-> "", avail |-> <<>>, raw |-> FALSE, state |-> <<>>,
   gsc_error |-> "", ga4_error |-> ""]
\* the two columns of the loaded connection a handler looks at later
NoSnap == [scProperty |-> Null, ga4PropertyId |-> Null]

\* a request slot: where its handler stands (pc), its locals, the response it sent,
\* and a log of what the request did (credValid .. ga4_calls)
IdleProc ==
  [pc |-> "idle", route |-> "", wid |-> 0, prop |-> "",
   tokens |-> NoTokens, email |-> "", conn |-> NoSnap, client |-> 0, sites |-> <<>>,
   resp |-> NoResp,
   credValid |-> FALSE, keyMatch |-> FALSE, authed |-> FALSE, entered |-> FALSE, reads |-> 0, writes |-> {},
   calls |-> 0, refreshes |-> 0, attempts |-> 0, badState |-> FALSE, emailFailed |-> FALSE,
   wasFresh |-> FALSE, provOk |-> FALSE, script |-> <<>>, badInput |-> FALSE,
   stateCred |-> FALSE, gscScripts |-> <<>>, ga4Script |-> <<>>, gsc_calls |-> 0, ga4_calls |-> 0]

\* res.status(st).json({error: c, ...}) / res.json(...)
Json(st, c) == [NoResp EXCEPT !.status = st, !.code = c]
\* res.redirect(url)
Redirect(c) == [NoResp EXCEPT !.status = 302, !.code = c]

\* the request is answered
Respond(q, r) == [q EXCEPT !.pc = "done", !.resp = r]

\* slot p moves to q
Step(p, q) == proc' = [proc EXCEPT ![p] = q]

\* no answer is waiting to be taken: an answered request is taken by its caller
\* (Finish) before anything else happens
Quiet == \A o \in Procs : proc[o].pc # "done"

\* a new request takes the lowest free slot
Free(p) ==
  /\ Quiet
  /\ proc[p].pc = "idle"
  /\ \A o \in Procs : o < p => proc[o].pc # "idle"

\* the caller has the response; the slot is free again
Finish(p) ==
  /\ proc[p].pc = "done"
  /\ proc' = [proc EXCEPT ![p] = IdleProc]
  /\ UNCHANGED << env, now, authReq, authRes, connections, issued >>

\* the handler in slot p stands at pc
At(p, pc) == Quiet /\ proc[p].pc = pc

Begin(route, w) == [IdleProc EXCEPT !.route = route, !.wid = w]

\* GET /health and GET /api/health
Health(p) ==
  /\ Free(p)
  /\ \E r \in {"health", "api_health"} : Step(p, Respond(Begin(r, 0), Json(200, "ok")))
  /\ UNCHANGED << env, now, authReq, authRes, connections, issued >>

\* GET /auth/start?website_id=...   (website_id 0: parameter absent)
authStartResp(e, website_id, t) ==
  IF website_id = 0 THEN Json(400, "BAD_REQUEST")
  ELSE IF ~signJWT(e, website_id, t).ok THEN [Json(500, "OAUTH_ERROR") EXCEPT !.raw = TRUE]
  ELSE [Redirect("consent") EXCEPT !.state = signJWT(e, website_id, t).token]

AuthStart(p) ==
  /\ Free(p)
  /\ \E w \in {0} \cup WebsiteIds :
       Step(p, Respond([Begin("auth_start", w) EXCEPT !.entered = TRUE, !.badInput = (w = 0)],
                       authStartResp(env, w, now)))
  /\ UNCHANGED << env, now, authReq, authRes, connections, issued >>

\* the catch block of GET /auth/callback: error.message goes out as it is
callbackCatch(e) ==
  IF e.AI_DOCTOR_BASE_URL
    THEN [Redirect("status=error") EXCEPT !.raw = TRUE]
    ELSE [Json(500, "CALLBACK_ERROR") EXCEPT !.raw = TRUE]

\* GET /auth/callback up to its first await: what is answered at once (NoResp: nothing yet)
callbackEntry(e, code, state, error, t) ==
  IF error THEN Json(400, "OAUTH_ERROR")
  ELSE IF code = "" \/ state = <<>> THEN Json(400, "BAD_REQUEST")
  ELSE IF ~verifyJWT(e, state, t).ok THEN callbackCatch(e)
  ELSE IF verifyJWT(e, state, t).website_id = 0 THEN Json(400, "INVALID_STATE")
  ELSE NoResp

\* state parameters a caller sends at time t: none, junk, tokens signed now or five
\* minutes ago under either key, with or without website_id, an edited payload, another header
StateVals(t) ==
  { <<>>, <<1>> }
  \cup { JwtSign(k, w, t) : k \in SignKeys, w \in {0, 1, 2} }
  \cup { JwtSign(k, 1, t - 1) : k \in SignKeys }
  \cup { << HS256, 2, t + 1, Sig(k, 1, t + 1) >> : k \in SignKeys }
  \cup { << HSOTHER, 1, t + 1, Sig(k, 1, t + 1) >> : k \in SignKeys }

CallbackQueries(t) ==
  { [code |-> "c", state |-> st, error |-> FALSE] : st \in StateVals(t) }
  \cup { [code |-> "", state |-> JwtSign(<<1>>, 1, t), error |-> FALSE],
         [code |-> "c", state |-> JwtSign(<<1>>, 1, t), error |-> TRUE] }

\* is this state parameter a signed token that is forged, edited or expired?
BadStateToken(e, state, t) ==
  /\ Len(state) = 4
  /\ JWT_SECRET(e) # <<>>
  /\ ~JwtVerifies(state, JWT_SECRET(e), t)

AuthCallback(p) ==
  /\ Free(p)
  /\ \E qy \in CallbackQueries(now) :
       LET r == callbackEntry(env, qy.code, qy.state, qy.error, now)
           q == [Begin("auth_callback", 0) EXCEPT
                   !.entered = TRUE,
                   !.badInput = (qy.code = "" \/ qy.state = <<>>),
                   !.badState = ~qy.error /\ qy.code # "" /\ BadStateToken(env, qy.state, now)]
       IN Step(p, IF r # NoResp THEN Respond(q, r)
                  ELSE [q EXCEPT !.pc = "cb_exchange",
                                 !.wid = verifyJWT(env, qy.state, now).website_id])
  /\ UNCHANGED << env, now, authReq, authRes, connections, issued >>

\* what oauth2Client.getToken(code) can yield besides throwing: token number n,
\* with any of the three fields missing, with or without a scope string
ExpiryOffsets == {2}
TokenOutcomes(n, t) ==
  { [access_token |-> n, refresh_token |-> n, expiry_date |-> t + d, scope |-> sc] :
      d \in ExpiryOffsets, sc \in {"s"} }
  \cup { [access_token |-> 0, refresh_token |-> n, expiry_date |-> t + 2, scope |-> ""],
         [access_token |-> n, refresh_token |-> 0, expiry_date |-> t + 2, scope |-> ""],
         [access_token |-> n, refresh_token |-> n, expiry_date |-> 0, scope |-> ""],
         [access_token |-> n, refresh_token |-> 0, expiry_date |-> 0, scope |-> ""] }

\* the guard with the refresh token and the expiry forgotten
tokensMissing_accessOnly(tokens) == tokens.access_token = 0

\* the guard on the exchanged tokens
tokensMissing(tokens) ==
  tokens.access_token = 0 \/ tokens.refresh_token = 0 \/ tokens.expiry_date = 0

\* the row keyed by the access token instead of the tenant
callbackRow_keyedByToken(websiteId, tokens, email) ==
  [websiteId |-> tokens.access_token,
   accessToken |-> tokens.access_token,
   refreshToken |-> tokens.refresh_token,
   expiryDate |-> tokens.expiry_date,
   scopes |-> IF tokens.scope # "" THEN tokens.scope ELSE REQUIRED_SCOPES,
   googleUserEmail |-> email,
   scProperty |-> Null,
   ga4PropertyId |-> Null]

\* the row handed to storage.upsertConnection
callbackRow(websiteId, tokens, email) ==
  [websiteId |-> websiteId,
   accessToken |-> tokens.access_token,
   refreshToken |-> tokens.refresh_token,
   expiryDate |-> tokens.expiry_date,
   scopes |-> IF tokens.scope # "" THEN tokens.scope ELSE REQUIRED_SCOPES,
   googleUserEmail |-> email,
   scProperty |-> Null,
   ga4PropertyId |-> Null]

AllFields ==
  {"websiteId", "accessToken", "refreshToken", "expiryDate", "scopes",
   "googleUserEmail", "scProperty", "ga4PropertyId"}

callbackSuccess(e) ==
  IF e.AI_DOCTOR_BASE_URL THEN Redirect("status=success") ELSE Json(200, "success")

\* userinfo.get() answers: it rejects ("fail"), or resolves with or without an email
UserinfoOutcomes == {"fail"} \cup Emails

\* GET /auth/callback after verifyJWT: the code exchange, the guard on the tokens,
\* the email lookup, the upsert and the answer.  `rejected`: getToken rejects;
\* `exchange`: the tokens it resolves with; `userinfo`: what userinfo.get() does.
\* Yields the slot's next state and whether the row is stored.
callbackRest(e, q, rejected, exchange, userinfo) ==
  IF rejected
    THEN [store |-> FALSE, q |-> Respond([q EXCEPT !.calls = 1], callbackCatch(e))]
  ELSE IF tokensMissing(exchange)
    THEN [store |-> FALSE,
          q |-> Respond([q EXCEPT !.calls = 1, !.tokens = exchange], Json(500, "TOKEN_ERROR"))]
  ELSE IF userinfo = "fail"
    THEN [store |-> FALSE,
          q |-> Respond([q EXCEPT !.calls = 2, !.tokens = exchange, !.emailFailed = TRUE],
                        callbackCatch(e))]
  ELSE [store |-> TRUE,
        q |-> Respond([q EXCEPT !.calls = 2, !.tokens = exchange, !.email = userinfo,
                                !.writes = AllFields],
                      callbackSuccess(e))]

CbExchange(p) ==
  /\ At(p, "cb_exchange")
  /\ \/ /\ Step(p, callbackRest(env, proc[p], TRUE, NoTokens, "fail").q)
        /\ UNCHANGED << connections, issued >>
     \/ /\ issued < MaxIssued
        /\ issued' = issued + 1
        /\ \E tk \in TokenOutcomes(issued + 1, now), ui \in UserinfoOutcomes :
             LET r == callbackRest(env, proc[p], FALSE, tk, ui)
             IN /\ Step(p, r.q)
                /\ connections' = IF r.store
                                    THEN upsertConnection(connections,
                                           callbackRow(r.q.wid, r.q.tokens, r.q.email))
                                    ELSE connections
  /\ UNCHANGED << env, now, authReq, authRes >>

\* ----------------------------------------------- the routes under /api/
ProtectedRoutes ==
  {"status", "sc_property", "ga4_property", "sc_summary", "sc_top",
   "ga4_summary", "ga4_top", "metrics", "smoke_test"}

\* credentials a caller sends at time t: none; either key in x-api-key or as a bearer;
\* a bearer token signed now under either key, or signed five minutes ago
CredCases(t) ==
  { [xApiKey |-> x, authorization |-> <<>>] : x \in { <<>>, <<1>>, <<2>> } }
  \cup { [xApiKey |-> <<>>, authorization |-> <<BEARER>> \o k] :
           k \in { <<1>>, <<2>>, JwtSign(<<1>>, 0, t), JwtSign(<<2>>, 0, t), JwtSign(<<1>>, 0, t - 1) } }

\* the state tokens GET /auth/start hands to anyone who asks, still within their five
\* minutes at time t, presented as a bearer credential
StateCreds(e, t) ==
  { [xApiKey |-> <<>>, authorization |-> <<BEARER>> \o signJWT(e, w, t2).token] :
      w \in { v \in WebsiteIds : signJWT(e, v, t).ok },
      t2 \in { u \in 0..t : t < u + ExpiresIn } }

\* the key a request presents: x-api-key, else the Authorization value after "Bearer "
PresentedKey(x, a) == IF x # <<>> THEN x ELSE IF StartsWithBearer(a) THEN Tail(a) ELSE a

\* the documented notion of a valid service credential: the configured key, or an
\* unexpired HS256 token signed with the shared secret, as a bearer
ValidCredential(e, x, a, t) ==
  \/ expectedKey(e) # <<>> /\ PresentedKey(x, a) = expectedKey(e)
  \/ x = <<>> /\ StartsWithBearer(a) /\ JWT_SECRET(e) # <<>> /\ JwtVerifies(Tail(a), JWT_SECRET(e), t)

\* the key of the request as the middleware reads it is the configured key
KeyMatches(e, x, a) == expectedKey(e) # <<>> /\ apiKeyOf(x, a) = expectedKey(e)

\* what a caller sends in the body or query of a route
Inputs(route) ==
  IF route \in {"sc_property", "ga4_property"} THEN {Missing} \cup Props
  ELSE IF route = "sc_top" THEN {"query", "page", "date"}
  ELSE {""}

\* the catch block of a protected route: res.status(500).json(handleGoogleAPIError(error))
routeCatch(kind, status) == Json(500, handleGoogleAPIError(kind, status))

\* is this body or query of the wrong shape for the route?
BadShape(route, input) ==
  \/ route \in {"sc_property", "ga4_property"} /\ input = Missing
  \/ route = "sc_top" /\ input \notin {"query", "page"}

\* the handlers with the check of the dimension left for after the lookup
handlerEntry_lateCheck(q, input) ==
  IF q.route = "smoke_test" THEN Respond(q, Json(200, "ok"))
  ELSE IF q.route = "status" THEN [q EXCEPT !.pc = "st_get"]
  ELSE IF q.route \in {"sc_property", "ga4_property"}
    THEN IF input = Missing THEN Respond(q, routeCatch("ZodError", 0))
         ELSE [q EXCEPT !.prop = input, !.pc = "gac_read"]
  ELSE [q EXCEPT !.pc = "getConn"]

\* a protected handler from its entry to its first await
handlerEntry(q, input) ==
  IF q.route = "smoke_test" THEN Respond(q, Json(200, "ok"))
  ELSE IF q.route = "status" THEN [q EXCEPT !.pc = "st_get"]
  ELSE IF q.route \in {"sc_property", "ga4_property"}
    THEN IF input = Missing THEN Respond(q, routeCatch("ZodError", 0))
         ELSE [q EXCEPT !.prop = input, !.pc = "gac_read"]
  ELSE IF q.route = "sc_top" /\ input \notin {"query", "page"}
    THEN Respond(q, Json(400, "BAD_REQUEST"))
  ELSE [q EXCEPT !.pc = "getConn"]

\* the routes that change a connection
GrantRoutes == {"sc_property", "ga4_property"}

\* a request to one of `routes`, all registered with requireAuth
ApiRequestOf(p, routes) ==
  /\ Free(p)
  /\ \E route \in routes, cred \in CredCases(now) \cup StateCreds(env, now) :
       LET a == requireAuth(env, cred.xApiKey, cred.authorization, now)
           valid == ValidCredential(env, cred.xApiKey, cred.authorization, now)
           match == KeyMatches(env, cred.xApiKey, cred.authorization)
       IN IF ~a.next
            THEN Step(p, Respond([Begin(route, 0) EXCEPT !.credValid = valid, !.keyMatch = match,
                                                         !.stateCred = cred \in StateCreds(env, now)],
                                 Json(a.status, a.code)))
            ELSE \E w \in WebsiteIds, input \in Inputs(route) :
                   Step(p, handlerEntry([Begin(route, w) EXCEPT !.credValid = valid,
                                                                !.keyMatch = match,
                                                                !.authed = TRUE,
                                                                !.entered = TRUE,
                                                                !.badInput = BadShape(route, input),
                                                                !.stateCred = cred \in StateCreds(env, now)],
                                        input))
  /\ UNCHANGED << env, now, authReq, authRes, connections, issued >>

ApiRequest(p) == ApiRequestOf(p, ProtectedRoutes)
SelectRequest(p) == ApiRequestOf(p, GrantRoutes)

\* app.all("/api/*"): any other path under /api/, with any credential or none
ApiUnknown(p) ==
  /\ Free(p)
  /\ \E cred \in CredCases(now) :
       Step(p, Respond([Begin("api_unknown", 0) EXCEPT
                          !.credValid = ValidCredential(env, cred.xApiKey, cred.authorization, now),
                          !.keyMatch = KeyMatches(env, cred.xApiKey, cred.authorization)],
                       Json(404, "not_found")))
  /\ UNCHANGED << env, now, authReq, authRes, connections, issued >>

Snap(c) == [scProperty |-> c.scProperty, ga4PropertyId |-> c.ga4PropertyId]

\* GET status: const connection = await storage.getConnection(websiteId)
StatusGet(p) ==
  /\ At(p, "st_get")
  /\ LET c == getConnection(connections, proc[p].wid)
     IN Step(p, Respond([proc[p] EXCEPT !.reads = @ + 1, !.conn = Snap(c)],
                        Json(200, IF c = NoConn THEN "connected:false" ELSE "connected:true")))
  /\ UNCHANGED << env, now, authReq, authRes, connections, issued >>

\* !x for a nullable string column
Falsy(x) == x = Null \/ x = ""

\* the routes that query an analytics provider
AnalyticsRoutes == {"sc_summary", "sc_top", "ga4_summary", "ga4_top", "metrics"}

\* the guards with the one of the web-analytics routes forgotten
connGuard_ga4Unguarded(route, c) ==
  IF route = "metrics"
    THEN IF c = NoConn THEN Json(400, "NOT_CONNECTED") ELSE NoResp
  ELSE IF route \in {"sc_summary", "sc_top"}
    THEN IF Falsy(c.scProperty) THEN Json(400, "NO_PROPERTY") ELSE NoResp
  ELSE NoResp

\* the analytics routes: const connection = await storage.getConnection(websiteId)
\* and the guard that follows it
connGuard(route, c) ==
  IF route = "metrics"
    THEN IF c = NoConn THEN Json(400, "NOT_CONNECTED") ELSE NoResp
  ELSE IF route \in {"sc_summary", "sc_top"}
    THEN IF Falsy(c.scProperty) THEN Json(400, "NO_PROPERTY") ELSE NoResp
  ELSE IF Falsy(c.ga4PropertyId) THEN Json(400, "NO_PROPERTY") ELSE NoResp

GetConn(p) ==
  /\ At(p, "getConn")
  /\ LET c == getConnection(connections, proc[p].wid)
         q == [proc[p] EXCEPT !.reads = @ + 1, !.conn = Snap(c)]
     IN Step(p, IF connGuard(q.route, c) # NoResp THEN Respond(q, connGuard(q.route, c))
                ELSE [q EXCEPT !.pc = "gac_read"])
  /\ UNCHANGED << env, now, authReq, authRes, connections, issued >>

\* where a handler goes on once it holds its client
afterClient(q) ==
  IF q.route = "sc_property" THEN "sc_validate"
  ELSE IF q.route = "ga4_property" THEN "ga4_validate"
  ELSE IF q.route = "metrics" THEN "m_fetch"
  ELSE "query"

\* getAuthenticatedClient(websiteId): load the connection; use its access token if
\* it lasts more than five minutes, refresh otherwise
GacRead(p) ==
  /\ At(p, "gac_read")
  /\ LET c == getConnection(connections, proc[p].wid)
         q == [proc[p] EXCEPT !.reads = @ + 1]
     IN Step(p, IF c = NoConn THEN Respond(q, routeCatch("NOT_CONNECTED", 0))
                ELSE IF IsFresh(c, now)
                  THEN [q EXCEPT !.wasFresh = TRUE, !.client = c.accessToken,
                                 !.email = c.googleUserEmail, !.pc = afterClient(q)]
                ELSE [q EXCEPT !.tokens = [NoTokens EXCEPT !.refresh_token = c.refreshToken],
                               !.email = c.googleUserEmail,
                               !.pc = "gac_refresh"])
  /\ UNCHANGED << env, now, authReq, authRes, connections, issued >>

\* the refresh exchange with the identity provider: refused, or a new access token
\* (number issued + 1), with or without a rotated refresh token, written to the connection
GacRefresh(p) ==
  /\ At(p, "gac_refresh")
  /\ LET q == [proc[p] EXCEPT !.calls = @ + 1, !.refreshes = @ + 1]
     IN \/ /\ Step(p, Respond(q, routeCatch("REAUTH", 0)))
           /\ UNCHANGED << connections, issued >>
        \/ /\ issued < MaxIssued
           /\ issued' = issued + 1
           /\ \E rotated \in BOOLEAN, d \in ExpiryOffsets :
                LET tk == [access_token |-> issued + 1,
                           refresh_token |-> IF rotated THEN issued + 1 ELSE 0,
                           expiry_date |-> now + d, scope |-> ""]
                IN /\ connections' = updateTokens(connections, q.wid, tk)
                   /\ Step(p, [q EXCEPT
                                 !.tokens = tk,
                                 !.writes = @ \cup {"accessToken", "expiryDate"}
                                              \cup (IF rotated THEN {"refreshToken"} ELSE {}),
                                 !.client = issued + 1,
                                 !.pc = afterClient(q)])
  /\ UNCHANGED << env, now, authReq, authRes >>

\* the lookup that is satisfied by any non-empty site list
validProperty_any(sites, property) == Len(sites) > 0

\* sites.find(site => site.siteUrl === property)
validProperty(sites, property) == \E i \in 1..Len(sites) : sites[i] = property

\* the handler without `return` in front of the 400 answer: it goes on to the update
scPropertyResult_noReturn(sites, property) ==
  IF ~validProperty(sites, property)
    THEN [store |-> TRUE, resp |-> [Json(400, "INVALID_PROPERTY") EXCEPT !.avail = sites]]
    ELSE [store |-> TRUE, resp |-> Json(200, "success")]

\* POST search-console/property once the site list is there: the answer sent and
\* whether updateScProperty is called
scPropertyResult(sites, property) ==
  IF ~validProperty(sites, property)
    THEN [store |-> FALSE, resp |-> [Json(400, "INVALID_PROPERTY") EXCEPT !.avail = sites]]
    ELSE [store |-> TRUE, resp |-> Json(200, "success")]

\* const sitesResponse = await retryWithBackoff(() => searchconsole.sites.list()),
\* the check of the property and await storage.updateScProperty(websiteId, property)
ScValidate(p) ==
  /\ At(p, "sc_validate")
  /\ \E script \in Scripts, sites \in SiteLists :
       LET r == retryWithBackoff(script)
           q == [proc[p] EXCEPT !.calls = @ + r.attempts, !.attempts = r.attempts,
                                !.provOk = r.ok, !.script = script]
           v == scPropertyResult(sites, q.prop)
       IN IF ~r.ok
            THEN /\ Step(p, Respond(q, routeCatch("GaxiosError", r.status)))
                 /\ UNCHANGED connections
            ELSE /\ Step(p, Respond([q EXCEPT !.sites = sites,
                                              !.writes = IF v.store THEN @ \cup {"scProperty"} ELSE @],
                                    v.resp))
                 /\ connections' = IF v.store THEN updateScProperty(connections, q.wid, q.prop)
                                   ELSE connections
  /\ UNCHANGED << env, now, authReq, authRes, issued >>

\* POST ga4/property once retryWithBackoff has settled: the answer sent and whether
\* updateGa4Property is called
ga4PropertyResult(r) ==
  IF ~r.ok THEN [store |-> FALSE, resp |-> routeCatch("GaxiosError", r.status)]
  ELSE [store |-> TRUE, resp |-> Json(200, "success")]

\* await retryWithBackoff(() => analyticsdata.properties.runReport({...})) and
\* await storage.updateGa4Property(websiteId, propertyId)
Ga4Validate(p) ==
  /\ At(p, "ga4_validate")
  /\ \E script \in Scripts :
       LET r == retryWithBackoff(script)
           q == [proc[p] EXCEPT !.calls = @ + r.attempts, !.attempts = r.attempts,
                                !.provOk = r.ok, !.script = script]
           v == ga4PropertyResult(r)
       IN /\ Step(p, Respond([q EXCEPT !.writes = IF v.store THEN @ \cup {"ga4PropertyId"} ELSE @],
                             v.resp))
          /\ connections' = IF v.store THEN updateGa4Property(connections, q.wid, q.prop)
                            ELSE connections
  /\ UNCHANGED << env, now, authReq, authRes, issued >>

\* the single provider query of search-console/summary, search-console/top,
\* ga4/summary and ga4/top-landing-pages, and the answer built from its rows
Query(p) ==
  /\ At(p, "query")
  /\ \E script \in Scripts :
       LET r == retryWithBackoff(script)
           q == [proc[p] EXCEPT !.calls = @ + r.attempts, !.attempts = r.attempts,
                                !.provOk = r.ok, !.script = script]
       IN Step(p, Respond(q, IF r.ok THEN Json(200, "ok") ELSE routeCatch("GaxiosError", r.status)))
  /\ UNCHANGED << env, now, authReq, authRes, connections, issued >>

\* GET metrics, the try block of the search-analytics queries: summary, top queries,
\* top pages, each through retryWithBackoff, the first failure ending the block.
\* Yields the number of queries issued and the gsc_error set (""; none).
RECURSIVE gscBlock(_, _)
gscBlock(scripts, n) ==
  IF n > Len(scripts) THEN [calls |-> Len(scripts), error |-> ""]
  ELSE IF ~retryWithBackoff(scripts[n]).ok
    THEN [calls |-> n,
          error |-> handleGoogleAPIError("GaxiosError", retryWithBackoff(scripts[n]).status)]
  ELSE gscBlock(scripts, n + 1)

\* what the providers do with the queries of one metrics request
MetricScripts == { <<200>>, <<429, 429, 429, 200>>, <<403>>, <<500, 500, 500, 500, 500, 500>> }
GscScripts ==
  { << a, b, c >> : a \in {<<200>>}, b \in {<<200>>}, c \in MetricScripts }
  \cup { << a, <<200>>, <<200>> >> : a \in MetricScripts }
  \cup { << <<200>>, b, <<200>> >> : b \in MetricScripts }

\* the handler without the inner try blocks: a failed search-analytics query falls
\* through to the outer catch and the web-analytics query is never issued
metricsResult_abortOnGsc(q, gsc, ga4) ==
  LET doGsc == ~Falsy(q.conn.scProperty)
      doGa4 == ~Falsy(q.conn.ga4PropertyId)
      g == gscBlock(gsc, 1)
      a == retryWithBackoff(ga4)
      l == [q EXCEPT !.gscScripts = IF doGsc THEN gsc ELSE <<>>,
                     !.ga4Script = IF doGa4 THEN ga4 ELSE <<>>]
  IN IF doGsc /\ g.error # ""
       THEN Respond([l EXCEPT !.gsc_calls = g.calls, !.calls = @ + g.calls], Json(500, g.error))
       ELSE Respond([l EXCEPT !.gsc_calls = IF doGsc THEN g.calls ELSE 0,
                              !.ga4_calls = IF doGa4 THEN 1 ELSE 0,
                              !.calls = @ + (IF doGsc THEN g.calls ELSE 0) + (IF doGa4 THEN 1 ELSE 0)],
                    [Json(200, "metrics") EXCEPT
                       !.ga4_error = IF doGa4 /\ ~a.ok
                                       THEN handleGoogleAPIError("GaxiosError", a.status)
                                     ELSE ""])

\* GET metrics after getAuthenticatedClient: both blocks and res.json(result)
metricsResult(q, gsc, ga4) ==
  LET doGsc == ~Falsy(q.conn.scProperty)
      doGa4 == ~Falsy(q.conn.ga4PropertyId)
      g == gscBlock(gsc, 1)
      a == retryWithBackoff(ga4)
  IN Respond([q EXCEPT !.gscScripts = IF doGsc THEN gsc ELSE <<>>,
                       !.ga4Script = IF doGa4 THEN ga4 ELSE <<>>,
                       !.gsc_calls = IF doGsc THEN g.calls ELSE 0,
                       !.ga4_calls = IF doGa4 THEN 1 ELSE 0,
                       !.calls = @ + (IF doGsc THEN g.calls ELSE 0) + (IF doGa4 THEN 1 ELSE 0)],
             [Json(200, "metrics") EXCEPT
                !.gsc_error = IF doGsc THEN g.error ELSE "",
                !.ga4_error = IF doGa4 /\ ~a.ok THEN handleGoogleAPIError("GaxiosError", a.status)
                              ELSE ""])

MetricsFetch(p) ==
  /\ At(p, "m_fetch")
  /\ \E gsc \in GscScripts, ga4 \in MetricScripts : Step(p, metricsResult(proc[p], gsc, ga4))
  /\ UNCHANGED << env, now, authReq, authRes, connections, issued >>

\* ------------------------------------------------------------ initial state
vars == << env, now, authReq, authRes, connections, proc, issued >>

Idle ==
  /\ now = 0
  /\ authReq = NoAuthReq
  /\ authRes = NoAuthRes
  /\ connections = {}
  /\ proc = [p \in Procs |-> IdleProc]
  /\ issued = 0

Init == env \in EnvConfigs /\ Idle

InitAuth == env \in EnvRecords /\ Idle

\* the deployment with one key for everything
InitGrant ==
  /\ env = [TRAFFIC_DOCTOR_API_KEY |-> <<1>>, WORKER_API_KEY |-> <<>>, JWT_SHARED_SECRET |-> <<>>,
            AI_DOCTOR_BASE_URL |-> FALSE]
  /\ Idle

\* five minutes pass
Tick ==
  /\ now < MaxTime
  /\ authRes = NoAuthRes
  /\ Quiet
  /\ now' = now + 1
  /\ UNCHANGED << env, authReq, authRes, connections, proc, issued >>

\* one request's headers are put through each revision of the middleware
AuthCheck ==
  \E x \in XApiKeyVals, a \in AuthorizationVals :
    /\ authReq = NoAuthReq
    /\ authRes = NoAuthRes
    /\ authReq' = [xApiKey |-> x, authorization |-> a]
    /\ authRes' = [lib     |-> requireAuth(env, x, a, now),
                   part000 |-> requireAuth_part000(env, x, a, now),
                   part001 |-> requireAuth_part001(env, x, a, now)]
    /\ UNCHANGED << env, now, connections, proc, issued >>

\* the response has been sent; the next request may arrive
AuthDone ==
  /\ authRes # NoAuthRes
  /\ authReq' = NoAuthReq
  /\ authRes' = NoAuthRes
  /\ UNCHANGED << env, now, connections, proc, issued >>

NextAuth == AuthCheck \/ AuthDone \/ Tick

SpecAuth == InitAuth /\ [][NextAuth]_vars

\* every route, one request at a time
Next ==
  \/ Tick
  \/ \E p \in {1} :
       \/ Health(p)
       \/ AuthStart(p)
       \/ AuthCallback(p)
       \/ CbExchange(p)
       \/ ApiRequest(p)
       \/ ApiUnknown(p)
       \/ StatusGet(p)
       \/ GetConn(p)
       \/ GacRead(p)
       \/ GacRefresh(p)
       \/ ScValidate(p)
       \/ Ga4Validate(p)
       \/ Query(p)
       \/ MetricsFetch(p)
       \/ Finish(p)

Spec == Init /\ [][Next]_vars

\* the routes that write connections, two requests in flight
NextGrant ==
  \/ Tick
  \/ \E p \in Procs :
       \/ AuthCallback(p)
       \/ CbExchange(p)
       \/ SelectRequest(p)
       \/ GacRead(p)
       \/ GacRefresh(p)
       \/ ScValidate(p)
       \/ Ga4Validate(p)
       \/ Finish(p)

SpecGrant == InitGrant /\ [][NextGrant]_vars

\* ------------------------------------------------------------------ claims

C2_BearerToken ==
  ( /\ authRes # NoAuthRes
    /\ expectedKey(env) # <<>> /\ JWT_SECRET(env) # <<>>
    /\ authReq.xApiKey = <<>>
    /\ StartsWithBearer(authReq.authorization)
    /\ Len(authReq.authorization) = 5 )
  => (authRes.lib.next <=> JwtVerifies(Tail(authReq.authorization), JWT_SECRET(env), now))

\* C3: a request presenting a key, in x-api-key or in Authorization (after "Bearer "),
\* is authorized by requireAuth exactly when that key equals the configured key.
C3_RawKey ==
  ( /\ authRes # NoAuthRes
    /\ expectedKey(env) # <<>>
    /\ (authReq.xApiKey # <<>> \/ authReq.authorization # <<>>) )
  => (authRes.lib.next <=> PresentedKey(authReq.xApiKey, authReq.authorization) = expectedKey(env))

\* C4: with no key configured, requireAuth answers every request, whatever it
\* presents, with 500 server_error and never calls next(); the earlier revisions
\* never call next() either when their secret is not configured.
C4_FailsClosed ==
  authRes # NoAuthRes =>
    /\ expectedKey(env) = <<>> =>
         /\ authRes.lib.status = 500
         /\ authRes.lib.code = "server_error"
         /\ ~authRes.lib.next
    /\ JWT_SECRET(env) = <<>> => (~authRes.part000.next /\ ~authRes.part001.next)

\* with no key configured, a request presenting a key in x-api-key has been answered 500
C4_Witness ==
  /\ authRes # NoAuthRes
  /\ expectedKey(env) = <<>>
  /\ authReq.xApiKey = <<1>>
  /\ authRes.lib.status = 500

\* C5: every connection in the store has accessToken, refreshToken and expiryDate
\* set, and a callback whose code exchange lacks one of the three writes nothing.
C5_TokensComplete ==
  /\ \A c \in connections : c.accessToken # 0 /\ c.refreshToken # 0 /\ c.expiryDate # 0
  /\ \A p \in Procs :
       (proc[p].pc = "done" /\ proc[p].route = "auth_callback"
          /\ (proc[p].tokens.access_token = 0 \/ proc[p].tokens.refresh_token = 0
                \/ proc[p].tokens.expiry_date = 0))
       => proc[p].writes = {}

\* an exchange without a refresh token has been answered while the tenant already has
\* a connection
C5_Witness ==
  \E p \in Procs :
    /\ proc[p].pc = "done" /\ proc[p].route = "auth_callback"
    /\ proc[p].resp.code = "TOKEN_ERROR"
    /\ proc[p].tokens.access_token # 0 /\ proc[p].tokens.refresh_token = 0
    /\ getConnection(connections, proc[p].wid) # NoConn

\* C6: a callback whose state token is tampered with or expired is answered with
\* INVALID_STATE, exchanges no code and persists nothing.
C6_InvalidState ==
  \A p \in Procs :
    (proc[p].pc = "done" /\ proc[p].route = "auth_callback" /\ proc[p].badState)
    => /\ proc[p].resp.code = "INVALID_STATE"
       /\ proc[p].calls = 0
       /\ proc[p].writes = {}

\* C7: when the exchange returned all three fields and the email lookup fails, the
\* callback still upserts the connection, with an empty googleUserEmail, and succeeds.
C7_EmailNonFatal ==
  \A p \in Procs :
    (proc[p].pc = "done" /\ proc[p].route = "auth_callback" /\ proc[p].emailFailed)
    => /\ proc[p].resp = callbackSuccess(env)
       /\ getConnection(connections, proc[p].wid).accessToken = proc[p].tokens.access_token
       /\ getConnection(connections, proc[p].wid).googleUserEmail = ""

\* C8: a step that leaves scProperty (ga4PropertyId) of a tenant non-null and changed
\* is the step of a selection request for that tenant and that value in which the
\* provider call succeeded and, for scProperty, the site list contained the value.
C8_ValidatedBeforeWrite ==
  [][ \A w \in WebsiteIds :
        LET old == getConnection(connections, w)
            new == getConnection(connections', w)
        IN /\ (new.scProperty # Null /\ new.scProperty # old.scProperty)
                => \E p \in Procs :
                     /\ proc[p].pc = "sc_validate" /\ proc[p].wid = w
                     /\ proc'[p].pc = "done" /\ proc'[p].provOk
                     /\ proc[p].prop = new.scProperty
                     /\ \E i \in 1..Len(proc'[p].sites) : proc'[p].sites[i] = new.scProperty
           /\ (new.ga4PropertyId # Null /\ new.ga4PropertyId # old.ga4PropertyId)
                => \E p \in Procs :
                     /\ proc[p].pc = "ga4_validate" /\ proc[p].wid = w
                     /\ proc'[p].pc = "done" /\ proc'[p].provOk
                     /\ proc[p].prop = new.ga4PropertyId ]_vars

\* a selection of "a" has been answered with success and the tenant's scProperty is "a"
C8_Witness ==
  \E p \in Procs :
    /\ proc[p].pc = "done" /\ proc[p].route = "sc_property"
    /\ proc[p].resp.code = "success"
    /\ getConnection(connections, proc[p].wid).scProperty = "a"

\* C9 as stated: a selection of a value absent from the site list is answered
\* INVALID_PROPERTY with the site list, and the request changes no field of the
\* tenant's connection.
C9_NoMutation ==
  \A p \in Procs :
    (proc[p].pc = "done" /\ proc[p].route = "sc_property"
       /\ proc[p].resp.code = "INVALID_PROPERTY")
    => /\ proc[p].resp.avail = proc[p].sites
       /\ proc[p].writes = {}

\* C9 amended: a selection of a value absent from the site list is answered
\* INVALID_PROPERTY with the site list; the request leaves scProperty and every field
\* other than the tokens as they were, and changes accessToken and expiryDate (and
\* refreshToken, when the provider rotates it) only when the stored expiryDate was
\* not more than five minutes ahead at the time the request loaded the connection.
C9_OnlyRefreshWrites ==
  \A p \in Procs :
    (proc[p].pc = "done" /\ proc[p].route = "sc_property"
       /\ proc[p].resp.code = "INVALID_PROPERTY")
    => /\ proc[p].resp.avail = proc[p].sites
       /\ \A i \in 1..Len(proc[p].sites) : proc[p].sites[i] # proc[p].prop
       /\ proc[p].writes \subseteq {"accessToken", "expiryDate", "refreshToken"}
       /\ proc[p].wasFresh => proc[p].writes = {}
       /\ ~proc[p].wasFresh => {"accessToken", "expiryDate"} \subseteq proc[p].writes

\* a selection answered INVALID_PROPERTY after the request refreshed the stale token
C9_Witness ==
  \E p \in Procs :
    /\ proc[p].pc = "done" /\ proc[p].route = "sc_property"
    /\ proc[p].resp.code = "INVALID_PROPERTY"
    /\ proc[p].resp.avail = <<"b">>
    /\ proc[p].refreshes = 1
    /\ getConnection(connections, proc[p].wid).accessToken = proc[p].client

\* C10: there is one connection per websiteId and never more connections than
\* grants, and when a callback completes the tenant's connection holds that grant's values.
C10_OneConnection ==
  /\ \A c1, c2 \in connections : c1.websiteId = c2.websiteId => c1 = c2
  /\ \A c \in connections : c.websiteId \in WebsiteIds
  /\ Cardinality(connections) <= issued
  /\ \A p \in Procs :
       (proc[p].pc = "done" /\ proc[p].route = "auth_callback" /\ proc[p].writes # {})
       => LET c == getConnection(connections, proc[p].wid)
          IN /\ c.websiteId = proc[p].wid
             /\ c.accessToken = proc[p].tokens.access_token
             /\ c.refreshToken = proc[p].tokens.refresh_token
             /\ c.expiryDate = proc[p].tokens.expiry_date
             /\ c.googleUserEmail = proc[p].email
             /\ c.scProperty = Null /\ c.ga4PropertyId = Null

\* a second grant for a tenant completes while a selection that loaded the first
\* grant's token is still in flight; the store holds one connection, with the second
C10_Witness ==
  \E p, o \in Procs :
    /\ proc[p].pc = "done" /\ proc[p].route = "auth_callback" /\ proc[p].writes # {}
    /\ proc[p].tokens.access_token = 2
    /\ proc[o].pc = "sc_validate" /\ proc[o].wid = proc[p].wid /\ proc[o].client = 1
    /\ Cardinality(connections) = 1

\* C11: a well-formed request to an analytics route for a tenant that has no
\* connection is answered 400 NOT_CONNECTED (metrics) or 400 NO_PROPERTY (the others)
\* right after the one lookup of the connection: no provider call, no refresh, and
\* the handler has answered (nothing escapes it).
C11_NoConnection ==
  \A p \in Procs :
    (proc[p].route \in AnalyticsRoutes /\ proc[p].reads > 0
       /\ getConnection(connections, proc[p].wid) = NoConn)
    => /\ proc[p].pc = "done"
       /\ proc[p].resp.status = 400
       /\ proc[p].resp.code = (IF proc[p].route = "metrics" THEN "NOT_CONNECTED" ELSE "NO_PROPERTY")
       /\ proc[p].reads = 1
       /\ proc[p].calls = 0 /\ proc[p].refreshes = 0 /\ proc[p].writes = {}

\* a web-analytics summary asked for a tenant without a connection, while another
\* tenant has one, has been answered NO_PROPERTY
C11_Witness ==
  \E p \in Procs :
    /\ proc[p].pc = "done" /\ proc[p].route = "ga4_summary"
    /\ proc[p].resp.code = "NO_PROPERTY"
    /\ getConnection(connections, proc[p].wid) = NoConn
    /\ connections # {}

\* C12: when getAuthenticatedClient loads a connection whose expiryDate is more than
\* five minutes ahead it hands out the stored access token, calls nobody and writes
\* nothing; when the expiryDate is five minutes or less ahead, or past, it makes one
\* refresh call, and a refresh that is granted persists the new accessToken and
\* expiryDate (a refused one persists nothing and is answered REAUTHORIZATION_REQUIRED).
C12_RefreshWhenStale ==
  [][ \A p \in Procs :
        LET c == getConnection(connections, proc[p].wid)
            q == proc'[p]
            d == getConnection(connections', proc[p].wid)
        IN /\ (proc[p].pc = "gac_read" /\ q # proc[p] /\ c # NoConn)
                => IF c.expiryDate - now > 1
                     THEN /\ q.client = c.accessToken
                          /\ q.calls = proc[p].calls /\ q.refreshes = 0
                          /\ q.pc \notin {"gac_refresh", "done"}
                          /\ connections' = connections
                     ELSE /\ q.pc = "gac_refresh"
                          /\ connections' = connections
           /\ (proc[p].pc = "gac_refresh" /\ q # proc[p])
                => /\ q.refreshes = 1 /\ q.calls = proc[p].calls + 1
                   /\ \/ /\ q.pc = "done" /\ q.resp.code = "REAUTHORIZATION_REQUIRED"
                         /\ connections' = connections
                      \/ /\ q.pc \notin {"gac_refresh", "done"}
                         /\ q.client = issued' /\ issued' = issued + 1
                         /\ c # NoConn =>
                              /\ d.accessToken = q.client
                              /\ d.expiryDate = q.tokens.expiry_date
                              /\ d.expiryDate - now > 1
                              /\ [d EXCEPT !.accessToken = 0, !.expiryDate = 0, !.refreshToken = 0]
                                   = [c EXCEPT !.accessToken = 0, !.expiryDate = 0, !.refreshToken = 0] ]_vars

\* a summary request that found the token five minutes from expiry holds the
\* refreshed token, which is also the one now stored
C12_Witness ==
  \E p \in Procs :
    /\ proc[p].pc = "query" /\ proc[p].route = "sc_summary"
    /\ proc[p].refreshes = 1 /\ ~proc[p].wasFresh
    /\ getConnection(connections, proc[p].wid).accessToken = proc[p].client
    /\ getConnection(connections, proc[p].wid).expiryDate = now + 2

\* C13: a provider call that answers 429 three times and then succeeds is returned
\* as a success after exactly 4 attempts; one that answers 500 every time is given up
\* after MAX_ATTEMPTS attempts and answered GOOGLE_API_ERROR.
C13_RetryCounts ==
  \A p \in Procs :
    (proc[p].pc = "done" /\ proc[p].script # <<>>)
    => /\ proc[p].attempts <= MAX_ATTEMPTS
       /\ proc[p].script = <<429, 429, 429, 200>>
            => (proc[p].provOk /\ proc[p].attempts = 4 /\ proc[p].resp.status # 500)
       /\ (Len(proc[p].script) > MAX_ATTEMPTS
             /\ \A i \in 1..Len(proc[p].script) : proc[p].script[i] = 500)
            => /\ ~proc[p].provOk /\ proc[p].attempts = MAX_ATTEMPTS
               /\ proc[p].resp.status = 500 /\ proc[p].resp.code = "GOOGLE_API_ERROR"
               /\ proc[p].writes \subseteq {"accessToken", "expiryDate", "refreshToken"}

\* a summary query answered 200 at the fourth attempt
C13_Witness ==
  \E p \in Procs :
    /\ proc[p].pc = "done" /\ proc[p].route = "ga4_summary"
    /\ proc[p].script = <<429, 429, 429, 200>>
    /\ proc[p].attempts = 4 /\ proc[p].resp.status = 200

\* the codes of the internal error taxonomy, as the responses spell them
ErrorTaxonomy ==
  {"NOT_CONNECTED", "REAUTHORIZATION_REQUIRED", "INSUFFICIENT_SCOPE", "RATE_LIMITED",
   "INVALID_PROPERTY", "NO_PROPERTY", "unauthorized", "INVALID_STATE", "TOKEN_ERROR",
   "GOOGLE_API_ERROR"}

\* C14: when a handler that contacted the identity provider or an analytics provider
\* answers with a failure, the answer carries a code of the error taxonomy and not
\* the raw error message.
C14_Normalized ==
  \A p \in Procs :
    (proc[p].pc = "done" /\ proc[p].calls > 0
       /\ (proc[p].resp.status >= 400 \/ proc[p].resp.code = "status=error"))
    => /\ ~proc[p].resp.raw
       /\ proc[p].resp.code \in ErrorTaxonomy

\* C15: a request with input of the wrong shape (no website_id on /auth/start, no
\* code or state on /auth/callback, a selection body without the string field, a
\* dimension other than query or page) is answered with an error at once: the request
\* reads and writes no record, refreshes no token and calls no provider.
C15_ShapeFirst ==
  \A p \in Procs :
    proc[p].badInput
    => /\ proc[p].pc = "done"
       /\ proc[p].resp.status >= 400
       /\ proc[p].reads = 0 /\ proc[p].writes = {}
       /\ proc[p].calls = 0 /\ proc[p].refreshes = 0

\* a top-rows request with dimension "date" for a tenant whose search-analytics
\* property is set has been answered BAD_REQUEST
C15_Witness ==
  \E p \in Procs :
    /\ proc[p].pc = "done" /\ proc[p].route = "sc_top" /\ proc[p].badInput
    /\ proc[p].resp.code = "BAD_REQUEST"
    /\ getConnection(connections, proc[p].wid).scProperty = "a"

C17_SameGrant ==
  \A p \in Procs :
    ( /\ proc[p].pc = "done"
      /\ proc[p].route \in {"sc_property", "ga4_property"}
      /\ proc[p].writes \cap {"scProperty", "ga4PropertyId"} # {} )
    => getConnection(connections, proc[p].wid).googleUserEmail = proc[p].email

\* C18 as stated: a metrics request for a tenant that has a connection queries each
\* provider exactly when its property is configured, and a search-analytics failure
\* leaves a success answer with gsc_error and the web-analytics query issued.
C18_QueriedIffConfigured ==
  \A p \in Procs :
    ( /\ proc[p].pc = "done" /\ proc[p].route = "metrics"
      /\ proc[p].entered /\ proc[p].reads >= 1
      /\ proc[p].resp.code # "NOT_CONNECTED" )
    => /\ proc[p].gsc_calls > 0 <=> ~Falsy(proc[p].conn.scProperty)
       /\ proc[p].ga4_calls > 0 <=> ~Falsy(proc[p].conn.ga4PropertyId)
       /\ proc[p].resp.gsc_error # "" => proc[p].resp.status = 200

\* C18: a metrics request that has obtained its client is answered 200; each
\* provider is queried exactly when its property is configured; the first
\* search-analytics query that fails after its retries is the last one issued and
\* sets gsc_error, and the web-analytics query is issued all the same when its
\* property is configured; ga4_error is set exactly when that query fails; without
\* a failure all three search-analytics queries are issued and no error is set.
C18_Isolated ==
  \A p \in Procs :
    (proc[p].pc = "done" /\ proc[p].route = "metrics" /\ proc[p].client # 0)
    => LET doGsc == ~Falsy(proc[p].conn.scProperty)
           doGa4 == ~Falsy(proc[p].conn.ga4PropertyId)
           gsc == proc[p].gscScripts
           failing == { i \in 1..Len(gsc) : ~retryWithBackoff(gsc[i]).ok }
       IN /\ proc[p].resp.status = 200
          /\ proc[p].gsc_calls > 0 <=> doGsc
          /\ proc[p].ga4_calls = IF doGa4 THEN 1 ELSE 0
          /\ (doGsc /\ failing # {})
               => /\ \A i \in failing : proc[p].gsc_calls <= i
                  /\ proc[p].gsc_calls \in failing
                  /\ proc[p].resp.gsc_error # ""
          /\ (doGsc /\ failing = {})
               => proc[p].gsc_calls = 3 /\ proc[p].resp.gsc_error = ""
          /\ ~doGsc => proc[p].resp.gsc_error = ""
          /\ proc[p].resp.ga4_error # ""
               <=> (doGa4 /\ ~retryWithBackoff(proc[p].ga4Script).ok)
          /\ proc[p].writes \subseteq {"accessToken", "expiryDate", "refreshToken"}

\* the second search-analytics query was refused, the third was not issued, and the
\* web-analytics query was issued and answered
C18_Witness ==
  \E p \in Procs :
    /\ proc[p].pc = "done" /\ proc[p].route = "metrics"
    /\ proc[p].resp.status = 200
    /\ proc[p].gsc_calls = 2 /\ proc[p].resp.gsc_error = "INSUFFICIENT_SCOPE"
    /\ proc[p].ga4_calls = 1 /\ proc[p].resp.ga4_error = ""

====
